---- MODULE Spec2Model ----
(***************************************************************************)
(* Model of the two Telegram bots of this repository:                      *)
(*   questionnaire_bot.py  the survey conversation (QuestionnaireBot)      *)
(*   admin_bot.py          the admin conversation (AdminBot)               *)
(* A conversation is keyed by <<chat id, user id>> (ConversationHandler's  *)
(* default per_chat/per_user key); context.user_data is keyed by the user  *)
(* id alone.  One action is one handler invocation, run to completion.     *)
(* A handler that raises leaves the conversation state as it was and keeps *)
(* the assignments it made before the raise.                               *)
(***************************************************************************)
EXTENDS Integers, Sequences, FiniteSets, TLC

\* ------------------------------------------------------------------ bounds
MaxQuestions == 2      \* longest questions.json list drawn in Init
MaxRows == 2           \* most submission rows appended in one behaviour
MaxRatings == 2        \* longest running rating list of one user
MaxInline == 1         \* most live inline-keyboard messages in one chat

\* ------------------------------------------------------- python dictionaries
None == "None"
EmptyDict == [k \in {} |-> None]
Has(d, k) == k \in DOMAIN d
Get(d, k) == IF k \in DOMAIN d THEN d[k] ELSE None
Put(d, k, v) == [x \in (DOMAIN d) \cup {k} |-> IF x = k THEN v ELSE d[x]]
Pop(d, k) == [x \in (DOMAIN d) \ {k} |-> d[x]]

\* ------------------------------------------------------------- the universe
\* User 1 talks to the survey bot in a private chat (chat id = user id) and in
\* a group chat (negative chat id).  User 2 is a user whose submission may
\* already be in the log when the behaviour starts.
ConvKeys == {<<1, 1>>, <<0 - 1, 1>>}
Users == {1}
EarlierUsers == {2}
UserOf(k) == k[2]

\* the question texts a questions.json of this deployment may hold, in order
QuestionTexts == <<"qa", "qb", "qc">>
NameTexts == {"Abebe"}
PhoneTexts == {"0911"}

\* Conversation states of questionnaire_bot.py
NAME == 0
PHONE == 1
RATINGS == 2
END == 0 - 1

RATING_EMOJIS == <<"angry", "sad", "neutral", "smile", "grin">>

\* A message text is a sequence of symbols; " " is white space.
RatingTexts == { <<"angry">>, <<" ", "grin", " ">>, <<"x">>, <<"grin", "grin">> }

RECURSIVE lstrip(_)
lstrip(t) == IF t /= <<>> /\ Head(t) = " " THEN lstrip(Tail(t)) ELSE t
RECURSIVE rstrip(_)
rstrip(t) ==
    IF t /= <<>> /\ t[Len(t)] = " " THEN rstrip(SubSeq(t, 1, Len(t) - 1)) ELSE t
strip(t) == rstrip(lstrip(t))

\* rating_text in RATING_EMOJIS
IsRatingEmoji(t) ==
    Len(t) = 1 /\ \E i \in 1..Len(RATING_EMOJIS) : RATING_EMOJIS[i] = t[1]
\* a plausible slip: the 0-based list index is used as the value
RatingOf_zero_based(t) ==
    (CHOOSE i \in 1..Len(RATING_EMOJIS) : RATING_EMOJIS[i] = t[1]) - 1

\* RATING_EMOJIS.index(rating_text) + 1   (python index is 0-based)
RatingOf(t) ==
    (CHOOSE i \in 1..Len(RATING_EMOJIS) : RATING_EMOJIS[i] = t[1]) - 1 + 1

VARIABLES
    state,           \* survey conversation state of each key
    user_data,       \* survey context.user_data of each user (a dict)
    sheet,           \* sheet1 of the spreadsheet: the submission log, rows of cells
    questions_file,  \* the "questions" list in questions.json
    last             \* the outcome of the last survey handler invocation

surveyVars == <<state, user_data, sheet, questions_file, last>>

VARIABLES
    admin_state,       \* admin conversation state of each key
    admin_user_data,   \* admin context.user_data of each user (a dict)
    admin_users_file,  \* admin_users.json: admin_usernames and admin_user_ids
    questions_sheet,   \* column A of the worksheet "Questions"
    inline,            \* the live inline-keyboard messages of each chat
    temp_file,         \* whether telegram_bot_data.xlsx exists in the temp dir
    admin_last         \* the outcome of the last admin handler invocation

adminVars == <<admin_state, admin_user_data, admin_users_file, questions_sheet,
               inline, temp_file, admin_last>>

\* ------------------------------------------------------------- outcomes
NoReply == [kind |-> "none", n |-> 0, text |-> ""]
Reply(kind) == [kind |-> kind, n |-> 0, text |-> ""]
QuestionReply(n, text) == [kind |-> "question", n |-> n, text |-> text]
Outcome(raised, reply) == [raised |-> raised, reply |-> reply]

\* ------------------------------------------------------- questionnaire_bot.py
\* QuestionnaireBot.load_questions: the list in the file, [] when reading fails
load_questions(file_ok) == IF file_ok THEN questions_file ELSE <<>>

\* f"Q{i+1}" for i in range(n)
QHeaders(n) == [i \in 1..n |-> "Q" \o ToString(i)]

DataRows(sh) == IF Len(sh) = 0 THEN 0 ELSE Len(sh) - 1

\* sheet.get_all_records(): row 1 is the header, every later row is a record;
\* the value of a record under key "UserID"
RecordUserIDs(sh) ==
    IF Len(sh) < 2 THEN <<>>
    ELSE [i \in 1..(Len(sh) - 1) |->
            IF \E c \in 1..Len(sh[1]) : sh[1][c] = "UserID"
            THEN LET c == CHOOSE c \in 1..Len(sh[1]) : sh[1][c] = "UserID"
                 IN  IF c <= Len(sh[i + 1]) THEN sh[i + 1][c] ELSE ""
            ELSE None]

\* QuestionnaireBot.has_user_submitted: False when the store cannot be read
has_user_submitted(store_ok, sh, user_id) ==
    IF ~store_ok THEN FALSE
    ELSE \E i \in 1..Len(RecordUserIDs(sh)) :
            RecordUserIDs(sh)[i] = ToString(user_id)

\* first_row = sheet.row_values(1); not first_row or first_row[0] != "UserID"
NeedsHeader(sh) ==
    LET first_row == IF Len(sh) = 0 THEN <<>> ELSE sh[1]
    IN  IF first_row = <<>> THEN TRUE ELSE first_row[1] /= "UserID"

\* a plausible slip: the header is written over row 1 instead of inserted
append_to_sheet_overwriting(sh, user_id, ud, ratings, fault, hdr_questions) ==
    LET need_header == NeedsHeader(sh)
        headers == <<"UserID", "Name", "Phone", "Timestamp">>
                       \o QHeaders(Len(hdr_questions))
        with_header == IF ~need_header THEN sh
                       ELSE IF sh = <<>> THEN <<headers>>
                       ELSE <<headers>> \o Tail(sh)
        row == <<ToString(user_id), Get(ud, "name"), Get(ud, "phone"), "ts">>
                   \o ratings
    IN  IF fault = "client" THEN [sheet |-> sh, raised |-> TRUE]
        ELSE IF fault = "header" /\ need_header THEN [sheet |-> sh, raised |-> TRUE]
        ELSE IF fault = "append" THEN [sheet |-> with_header, raised |-> TRUE]
        ELSE [sheet |-> Append(with_header, row), raised |-> FALSE]

\* a plausible slip: the header is appended below the existing rows
append_to_sheet_header_last(sh, user_id, ud, ratings, fault, hdr_questions) ==
    LET need_header == NeedsHeader(sh)
        headers == <<"UserID", "Name", "Phone", "Timestamp">>
                       \o QHeaders(Len(hdr_questions))
        with_header == IF need_header THEN Append(sh, headers) ELSE sh
        row == <<ToString(user_id), Get(ud, "name"), Get(ud, "phone"), "ts">>
                   \o ratings
    IN  IF fault = "client" THEN [sheet |-> sh, raised |-> TRUE]
        ELSE IF fault = "header" /\ need_header THEN [sheet |-> sh, raised |-> TRUE]
        ELSE IF fault = "append" THEN [sheet |-> with_header, raised |-> TRUE]
        ELSE [sheet |-> Append(with_header, row), raised |-> FALSE]

\* append_to_sheet.  fault names the call that raises, if any:
\*   "client"  get_client / open_by_key / row_values raises: nothing written
\*   "header"  building or writing the header row raises: nothing written
\*   "append"  append_row(row) raises: the header row may have been written
\* hdr_questions is what load_questions returns for the header row.
append_to_sheet(sh, user_id, ud, ratings, fault, hdr_questions) ==
    LET need_header == NeedsHeader(sh)
        headers == <<"UserID", "Name", "Phone", "Timestamp">>
                       \o QHeaders(Len(hdr_questions))
        with_header == IF need_header THEN <<headers>> \o sh ELSE sh
        row == <<ToString(user_id), Get(ud, "name"), Get(ud, "phone"), "ts">>
                   \o ratings
    IN  IF fault = "client" THEN [sheet |-> sh, raised |-> TRUE]
        ELSE IF fault = "header" /\ need_header THEN [sheet |-> sh, raised |-> TRUE]
        ELSE IF fault = "append" THEN [sheet |-> with_header, raised |-> TRUE]
        ELSE [sheet |-> Append(with_header, row), raised |-> FALSE]

AppendFaults == {"none", "client", "header", "append"}
\* the inputs of a handler path that makes no store call are fixed, so that one
\* invocation is one step
Unused(fault, file_ok) == fault = "none" /\ file_ok

\* the log as it is after user 2 submitted when the list had n questions
EarlierLog(n) ==
    << <<"UserID", "Name", "Phone", "Timestamp">> \o QHeaders(n),
       <<"2", "Sara", "0922", "ts">> \o [i \in 1..n |-> 3] >>

\* the same log after its header row was removed by hand
HeaderlessLog(n) == <<EarlierLog(n)[2]>>

\* QuestionnaireBot.start, the entry point of the conversation
start(k, store_ok) ==
    /\ state[k] = END
    /\ IF has_user_submitted(store_ok, sheet, UserOf(k))
       THEN /\ last' = Outcome(FALSE, Reply("already_submitted"))
            /\ UNCHANGED <<state, user_data>>
       ELSE /\ user_data' = [user_data EXCEPT
                                ![UserOf(k)] = Put(@, "user_id", UserOf(k))]
            /\ state' = [state EXCEPT ![k] = NAME]
            /\ last' = Outcome(FALSE, Reply("ask_name"))
    /\ UNCHANGED <<sheet, questions_file>>
    /\ UNCHANGED adminVars

\* QuestionnaireBot.get_name
get_name(k, text) ==
    /\ state[k] = NAME
    /\ user_data' = [user_data EXCEPT ![UserOf(k)] = Put(@, "name", text)]
    /\ state' = [state EXCEPT ![k] = PHONE]
    /\ last' = Outcome(FALSE, Reply("ask_phone"))
    /\ UNCHANGED <<sheet, questions_file>>
    /\ UNCHANGED adminVars

\* a plausible slip: the empty list is not tested, the session enters RATINGS
get_phone_unguarded(k, text, file_ok) ==
    /\ state[k] = PHONE
    /\ LET questions == load_questions(file_ok)
       IN  /\ user_data' = [user_data EXCEPT ![UserOf(k)] =
                  Put(Put(Put(@, "phone", text), "ratings", <<>>),
                      "current_question", 0)]
           /\ state' = [state EXCEPT ![k] = RATINGS]
           /\ last' = Outcome(FALSE,
                 IF questions = <<>> THEN Reply("no_questions")
                 ELSE QuestionReply(1, questions[1]))
    /\ UNCHANGED <<sheet, questions_file>>
    /\ UNCHANGED adminVars

\* QuestionnaireBot.get_phone
get_phone(k, text, file_ok) ==
    /\ state[k] = PHONE
    /\ LET questions == load_questions(file_ok)
       IN  /\ user_data' = [user_data EXCEPT ![UserOf(k)] =
                  Put(Put(Put(@, "phone", text), "ratings", <<>>),
                      "current_question", 0)]
           /\ IF questions = <<>>
              THEN /\ state' = [state EXCEPT ![k] = END]
                   /\ last' = Outcome(FALSE, Reply("no_questions"))
              ELSE /\ state' = [state EXCEPT ![k] = RATINGS]
                   /\ last' = Outcome(FALSE,
                                      QuestionReply(1, questions[1]))
    /\ UNCHANGED <<sheet, questions_file>>
    /\ UNCHANGED adminVars

\* a plausible slip: the rejected input still advances the question index
reject_rating_advancing(k) ==
    /\ last' = Outcome(FALSE, Reply("invalid_rating"))
    /\ user_data' = [user_data EXCEPT ![UserOf(k)] =
                        Put(@, "current_question", @["current_question"] + 1)]
    /\ UNCHANGED <<state, sheet>>

\* QuestionnaireBot.handle_rating, the else branch: the input is not a rating
reject_rating(k) ==
    /\ last' = Outcome(FALSE, Reply("invalid_rating"))
    /\ UNCHANGED <<state, user_data, sheet>>

\* QuestionnaireBot.handle_rating
handle_rating(k, text, file_ok, fault, hdr_file_ok) ==
    /\ state[k] = RATINGS
    /\ LET u == UserOf(k)
           ud == user_data[u]
           rating_text == strip(text)
           questions == load_questions(file_ok)
       IN  IF ~Has(ud, "current_question")
           THEN \* KeyError at context.user_data['current_question']
                /\ Unused(fault, hdr_file_ok)
                /\ last' = Outcome(TRUE, NoReply)
                /\ UNCHANGED <<state, user_data, sheet>>
           ELSE IF ~IsRatingEmoji(rating_text)
           THEN /\ Unused(fault, hdr_file_ok)
                /\ reject_rating(k)
           ELSE IF ~Has(ud, "ratings")
           THEN \* KeyError at context.user_data['ratings']
                /\ Unused(fault, hdr_file_ok)
                /\ last' = Outcome(TRUE, NoReply)
                /\ UNCHANGED <<state, user_data, sheet>>
           ELSE
             LET ratings == Append(ud["ratings"], RatingOf(rating_text))
                 current_q == ud["current_question"] + 1
                 ud1 == Put(Put(ud, "ratings", ratings),
                            "current_question", current_q)
             IN  /\ Len(ud["ratings"]) < MaxRatings
                 /\ IF current_q >= Len(questions)
                    THEN IF ~Has(ud1, "user_id")
                         THEN \* KeyError at context.user_data["user_id"]
                              /\ Unused(fault, hdr_file_ok)
                              /\ user_data' = [user_data EXCEPT ![u] = ud1]
                              /\ last' = Outcome(TRUE, NoReply)
                              /\ UNCHANGED <<state, sheet>>
                         ELSE
                           LET r == append_to_sheet(sheet, ud1["user_id"], ud1,
                                        ratings, fault, load_questions(hdr_file_ok))
                           IN  /\ DataRows(sheet) < MaxRows
                               /\ IF NeedsHeader(sheet) THEN TRUE
                                  ELSE fault /= "header" /\ hdr_file_ok
                               /\ sheet' = r.sheet
                               /\ IF r.raised
                                  THEN /\ user_data' = [user_data EXCEPT ![u] = ud1]
                                       /\ last' = Outcome(TRUE,
                                                          NoReply)
                                       /\ UNCHANGED state
                                  ELSE /\ user_data' =
                                            [user_data EXCEPT ![u] = EmptyDict]
                                       /\ state' = [state EXCEPT ![k] = END]
                                       /\ last' = Outcome(FALSE,
                                                          Reply("thanks"))
                    ELSE /\ Unused(fault, hdr_file_ok)
                         /\ user_data' = [user_data EXCEPT ![u] = ud1]
                         /\ last' = Outcome(FALSE,
                                QuestionReply(current_q + 1, questions[current_q + 1]))
                         /\ UNCHANGED <<state, sheet>>
    /\ UNCHANGED questions_file
    /\ UNCHANGED adminVars

\* QuestionnaireBot.cancel, the fallback of the conversation
cancel(k) ==
    /\ state[k] /= END
    /\ user_data' = [user_data EXCEPT ![UserOf(k)] = EmptyDict]
    /\ state' = [state EXCEPT ![k] = END]
    /\ last' = Outcome(FALSE, Reply("cancelled"))
    /\ UNCHANGED <<sheet, questions_file>>
    /\ UNCHANGED adminVars

\* =============================================================== admin_bot.py
\* Conversation states of admin_bot.py
AUTHENTICATE == 0
ADMIN_MENU == 1
EDIT_QUESTIONS == 2
NEW_QUESTION == 3

\* A Telegram user: numeric id and username (a sequence of characters, empty
\* when the user has none)
NoUsername == <<>>
AdminUser(id) ==
    IF id = 1 THEN [id |-> 1, username |-> <<"A", "b">>]
    ELSE [id |-> id, username |-> NoUsername]
AdminUsers == {1, 2}
\* every admin talks to the admin bot in a private chat
AdminKeys == {<<1, 1>>, <<2, 2>>}
\* the admin who uses the menu and manages the questions; the other admin
\* only signs in and cancels
ManagerKeys == {<<1, 1>>}

LowerChar(c) == IF c = "A" THEN "a" ELSE IF c = "B" THEN "b" ELSE c
\* str.lower
lower(t) == [i \in 1..Len(t) |-> LowerChar(t[i])]

PASSWORD == "admin123"
PasswordTexts == {"admin123", "letmein"}
NewQuestionTexts == {"qb", "qc"}

\* the labels of the two reply keyboards
ExportCmd == "export"
ManageCmd == "manage"
StatsCmd == "stats"
MenuCommands == {ExportCmd, ManageCmd, StatsCmd}
EditCommands == {"view", "add", "edit", "delete", "back"}

vars == <<state, user_data, sheet, questions_file, last, admin_state,
          admin_user_data, admin_users_file, questions_sheet, inline, temp_file,
          admin_last>>

\* one reply: its kind and what it shows (a sequence of texts)
AReply(kind, arg) == [kind |-> kind, arg |-> arg]
AOutcome(raised, replies) == [raised |-> raised, replies |-> replies]

\* AdminBot.load_admin_users: the file, or empty lists when reading fails
load_admin_users(file, read_ok) ==
    IF read_ok THEN file ELSE [admin_usernames |-> <<>>, admin_user_ids |-> <<>>]

InSeq(x, seq) == \E i \in 1..Len(seq) : seq[i] = x

\* a plausible slip: usernames are compared as they are spelled
is_user_admin_case_sensitive(file, user, read_ok) ==
    LET admin_data == load_admin_users(file, read_ok)
    IN  IF InSeq(user.id, admin_data.admin_user_ids) THEN TRUE
        ELSE IF user.username = NoUsername THEN FALSE
        ELSE InSeq(user.username, admin_data.admin_usernames)

\* AdminBot.is_user_admin
is_user_admin(file, user, read_ok) ==
    LET admin_data == load_admin_users(file, read_ok)
        user_username == IF user.username /= NoUsername THEN lower(user.username)
                         ELSE <<>>
    IN  IF InSeq(user.id, admin_data.admin_user_ids) THEN TRUE
        ELSE \E i \in 1..Len(admin_data.admin_usernames) :
                lower(admin_data.admin_usernames[i]) = user_username

\* AdminBot.add_admin_user: the file afterwards and the value returned
add_admin_user(file, user_id, username, read_ok, write_ok) ==
    LET admin_data == load_admin_users(file, read_ok)
        ids == IF InSeq(user_id, admin_data.admin_user_ids)
               THEN admin_data.admin_user_ids
               ELSE Append(admin_data.admin_user_ids, user_id)
        has_name == IF username = NoUsername THEN TRUE
                    ELSE \E i \in 1..Len(admin_data.admin_usernames) :
                            lower(admin_data.admin_usernames[i]) = lower(username)
        names == IF has_name THEN admin_data.admin_usernames
                 ELSE Append(admin_data.admin_usernames, username)
    IN  IF write_ok
        THEN [file |-> [admin_usernames |-> names, admin_user_ids |-> ids],
              ok |-> TRUE]
        ELSE [file |-> file, ok |-> FALSE]

\* a plausible slip: the list comes from a read made before the latest write,
\* so its last question is missing
admin_load_questions_cached(col, store_ok) ==
    IF ~store_ok \/ col = <<>> THEN <<>>
    ELSE IF col[1] = "Question" THEN SubSeq(col, 2, Len(col) - 1)
    ELSE SubSeq(col, 1, Len(col) - 1)

\* a plausible slip: the header cell is returned as the first question
admin_load_questions_with_header(col, store_ok) ==
    IF ~store_ok THEN <<>> ELSE col

\* AdminBot.load_questions: column A without its header, [] when the store
\* cannot be read
admin_load_questions(col, store_ok) ==
    IF ~store_ok THEN <<>>
    ELSE IF col = <<>> THEN <<>>
    ELSE IF col[1] = "Question" THEN Tail(col)
    ELSE col

\* AdminBot.save_questions: update("A1:A{len(data)}", data) overwrites the first
\* len(data) cells of column A and leaves the cells below them as they are
save_questions(col, questions, store_ok) ==
    LET data == <<"Question">> \o questions
    IN  IF ~store_ok THEN [col |-> col, ok |-> FALSE]
        ELSE [col |-> data \o SubSeq(col, Len(data) + 1, Len(col)), ok |-> TRUE]

\* ------------------------------------------------------ inline keyboards
\* callback_data=f"edit_{i}" / f"delete_{i}": the action and the decimal index
Token(action, i) == [action |-> action, index |-> ToString(i)]
Fixed(literal) == [action |-> literal, index |-> ""]
\* int(data.split("_")[1])
ParseIndex(tok) == CHOOSE i \in 0..(MaxQuestions + 1) : ToString(i) = tok.index

EditList(n) == [kind |-> "edit_list", n |-> n, shown |-> ""]
DeleteList(n) == [kind |-> "delete_list", n |-> n, shown |-> ""]
ConfirmPrompt(q) == [kind |-> "confirm", n |-> 0, shown |-> q]
\* the buttons of a live inline-keyboard message
Buttons(m) ==
    IF m.kind = "edit_list"
    THEN {Token("edit", i) : i \in 0..(m.n - 1)} \cup {Fixed("cancel_edit")}
    ELSE IF m.kind = "delete_list"
    THEN {Token("delete", i) : i \in 0..(m.n - 1)} \cup {Fixed("cancel_delete")}
    ELSE {Fixed("confirm_delete"), Fixed("cancel_delete")}

\* AdminBot.show_admin_panel / AdminBot.return_to_question_management
PanelReply == AReply("admin_panel", <<>>)
ManageReply == AReply("question_management", <<>>)

\* the survey bot before any update; the admin bot idle, with the files
\* initialize_files creates
SurveyInit ==
    /\ admin_state = [k \in AdminKeys |-> END]
    /\ admin_user_data = [u \in AdminUsers |-> EmptyDict]
    /\ admin_users_file = [admin_usernames |-> <<>>, admin_user_ids |-> <<>>]
    /\ questions_sheet = <<>>
    /\ inline = [k \in AdminKeys |-> {}]
    /\ temp_file = FALSE
    /\ admin_last = AOutcome(FALSE, <<>>)
    /\ state = [k \in ConvKeys |-> END]
    /\ user_data = [u \in Users |-> EmptyDict]
    /\ questions_file \in { SubSeq(QuestionTexts, 1, n) : n \in 0..MaxQuestions }
    /\ sheet \in {<<>>} \cup
                   { EarlierLog(n) : n \in 1..Len(questions_file) } \cup
                   { HeaderlessLog(n) : n \in 1..Len(questions_file) }
    /\ last = Outcome(FALSE, NoReply)

\* the admin bot before any update, over a submission log (empty, or with one
\* row) that no survey session changes
AdminInit ==
    /\ state = [k \in ConvKeys |-> END]
    /\ user_data = [u \in Users |-> EmptyDict]
    /\ questions_file = SubSeq(QuestionTexts, 1, MaxQuestions)
    /\ sheet = EarlierLog(1)
    /\ last = Outcome(FALSE, NoReply)
    /\ admin_state = [k \in AdminKeys |-> END]
    /\ admin_user_data = [u \in AdminUsers |-> EmptyDict]
    /\ admin_users_file = [admin_usernames |-> <<>>, admin_user_ids |-> <<>>]
    /\ questions_sheet \in
          { <<"Question">> \o SubSeq(QuestionTexts, 1, n) : n \in 1..MaxQuestions }
    /\ inline = [k \in AdminKeys |-> {}]
    /\ temp_file = FALSE
    /\ admin_last = AOutcome(FALSE, <<>>)

\* AdminBot.start, the /start command
admin_start(k) ==
    /\ admin_last' = AOutcome(FALSE, <<AReply("welcome", <<>>)>>)
    /\ UNCHANGED <<admin_state, admin_user_data, admin_users_file,
                   questions_sheet, inline, temp_file>>
    /\ UNCHANGED surveyVars

\* AdminBot.login, the entry point (allow_reentry: taken in every state)
login(k, read_ok) ==
    /\ IF is_user_admin(admin_users_file, AdminUser(UserOf(k)), read_ok)
       THEN /\ admin_state' = [admin_state EXCEPT ![k] = ADMIN_MENU]
            /\ admin_last' = AOutcome(FALSE, <<PanelReply>>)
       ELSE /\ admin_state' = [admin_state EXCEPT ![k] = AUTHENTICATE]
            /\ admin_last' = AOutcome(FALSE, <<AReply("ask_password", <<>>)>>)
    /\ UNCHANGED <<admin_user_data, admin_users_file, questions_sheet, inline,
                   temp_file>>
    /\ UNCHANGED surveyVars

\* a plausible slip: a wrong password ends the conversation
authenticate_locking(k, password_attempt, read_ok, write_ok) ==
    /\ admin_state[k] = AUTHENTICATE
    /\ IF password_attempt = PASSWORD
       THEN LET user == AdminUser(UserOf(k))
                r == add_admin_user(admin_users_file, user.id, user.username,
                                    read_ok, write_ok)
            IN  /\ admin_users_file' = r.file
                /\ admin_state' = [admin_state EXCEPT ![k] = ADMIN_MENU]
                /\ admin_last' = AOutcome(FALSE,
                      IF r.ok THEN <<AReply("welcome_admin", <<>>), PanelReply>>
                      ELSE <<PanelReply>>)
       ELSE /\ Unused("none", read_ok /\ write_ok)
            /\ admin_last' = AOutcome(FALSE, <<AReply("wrong_password", <<>>)>>)
            /\ admin_state' = [admin_state EXCEPT ![k] = END]
            /\ UNCHANGED admin_users_file
    /\ UNCHANGED <<admin_user_data, questions_sheet, inline, temp_file>>
    /\ UNCHANGED surveyVars

\* AdminBot.authenticate
authenticate(k, password_attempt, read_ok, write_ok) ==
    /\ admin_state[k] = AUTHENTICATE
    /\ IF password_attempt = PASSWORD
       THEN LET user == AdminUser(UserOf(k))
                r == add_admin_user(admin_users_file, user.id, user.username,
                                    read_ok, write_ok)
            IN  /\ admin_users_file' = r.file
                /\ admin_state' = [admin_state EXCEPT ![k] = ADMIN_MENU]
                /\ admin_last' = AOutcome(FALSE,
                      IF r.ok THEN <<AReply("welcome_admin", <<>>), PanelReply>>
                      ELSE <<PanelReply>>)
       ELSE /\ Unused("none", read_ok /\ write_ok)
            /\ admin_last' = AOutcome(FALSE, <<AReply("wrong_password", <<>>)>>)
            /\ UNCHANGED <<admin_state, admin_users_file>>
    /\ UNCHANGED <<admin_user_data, questions_sheet, inline, temp_file>>
    /\ UNCHANGED surveyVars

\* a plausible slip: the context is not cleared
admin_cancel_keeping(k) ==
    /\ admin_state[k] /= END
    /\ admin_state' = [admin_state EXCEPT ![k] = END]
    /\ admin_last' = AOutcome(FALSE, <<AReply("cancelled", <<>>)>>)
    /\ UNCHANGED <<admin_user_data, admin_users_file, questions_sheet, inline,
                   temp_file>>
    /\ UNCHANGED surveyVars

\* AdminBot.cancel, the fallback of the conversation
admin_cancel(k) ==
    /\ admin_state[k] /= END
    /\ admin_user_data' = [admin_user_data EXCEPT ![UserOf(k)] = EmptyDict]
    /\ admin_state' = [admin_state EXCEPT ![k] = END]
    /\ admin_last' = AOutcome(FALSE, <<AReply("cancelled", <<>>)>>)
    /\ UNCHANGED <<admin_users_file, questions_sheet, inline, temp_file>>
    /\ UNCHANGED surveyVars

\* sheet.get_all_records() of the submission log: the data rows
LogRecords(sh) == IF Len(sh) < 2 THEN <<>> ELSE Tail(sh)

\* rating column c of the log, as df[col]: the cell of every data row, and
\* EmptyCell (no rating is 0) where the row is shorter than the header
EmptyCell == 0
LogColumn(sh, c) ==
    [i \in 1..Len(LogRecords(sh)) |->
        IF c <= Len(sh[i + 1]) THEN sh[i + 1][c] ELSE EmptyCell]
ColumnOf(sh, name) ==
    IF \E c \in 1..Len(sh[1]) : sh[1][c] = name
    THEN CHOOSE c \in 1..Len(sh[1]) : sh[1][c] = name
    ELSE 0
RECURSIVE SeqSum(_)
SeqSum(xs) == IF xs = <<>> THEN 0 ELSE Head(xs) + SeqSum(Tail(xs))

\* the statistics lines of admin_panel: for question i whose column Q{i+1}
\* exists and holds numbers only, the question with the sum and the count of
\* the column (its mean, as a fraction)
StatsLines(sh, questions) ==
    LET line(i) ==
            LET c == ColumnOf(sh, "Q" \o ToString(i))
                vals == IF c = 0 THEN <<>> ELSE LogColumn(sh, c)
            IN  IF c = 0 THEN <<>>
                ELSE IF \E j \in 1..Len(vals) : vals[j] = EmptyCell THEN <<>>
                ELSE << [q |-> questions[i], sum |-> SeqSum(vals), n |-> Len(vals)] >>
        RECURSIVE lines(_)
        lines(i) == IF i > Len(questions) THEN <<>> ELSE line(i) \o lines(i + 1)
    IN  lines(1)

\* the local calls of an export that can fail:
\*   "send"           reply_document raises
\*   "excel"          df.to_excel raises before the file is created
\*   "excel_partial"  df.to_excel raises after the file was created
\*   "remove"         os.remove raises
ExportFaults == {"none", "send", "excel", "excel_partial", "remove"}
SendFaults == {"none", "send"}

\* a plausible slip: the file is written before the frame is tested for rows
sheet_to_excel_local_eager(store_ok, fault) ==
    LET data == IF store_ok THEN LogRecords(sheet) ELSE <<>>
    IN  IF data = <<>> THEN [file_path |-> None, exists |-> TRUE]
        ELSE IF fault = "excel" THEN [file_path |-> None, exists |-> temp_file]
        ELSE IF fault = "excel_partial" THEN [file_path |-> None, exists |-> TRUE]
        ELSE [file_path |-> "telegram_bot_data.xlsx", exists |-> TRUE]

\* sheet_to_excel_local: the path it returns (None when there is no data or a
\* call raised) and whether the temp file exists afterwards
sheet_to_excel_local(store_ok, fault) ==
    LET data == IF store_ok THEN LogRecords(sheet) ELSE <<>>
    IN  IF data = <<>> THEN [file_path |-> None, exists |-> temp_file]
        ELSE IF fault = "excel" THEN [file_path |-> None, exists |-> temp_file]
        ELSE IF fault = "excel_partial" THEN [file_path |-> None, exists |-> TRUE]
        ELSE [file_path |-> "telegram_bot_data.xlsx", exists |-> TRUE]

\* a plausible slip: an unreachable row store is reported as such
admin_panel_body_reporting(user, command, read_ok, store_ok, fault, load_ok) ==
    IF ~is_user_admin(admin_users_file, user, read_ok)
    THEN [next |-> AUTHENTICATE, replies |-> <<AReply("not_admin", <<>>)>>,
          temp |-> temp_file]
    ELSE IF command \in {ExportCmd, StatsCmd} /\ ~store_ok
    THEN [next |-> ADMIN_MENU, replies |-> <<AReply("store_unreachable", <<>>)>>,
          temp |-> temp_file]
    ELSE IF command = ExportCmd
    THEN LET r == sheet_to_excel_local(store_ok, fault)
         IN  IF r.file_path = None
             THEN [next |-> ADMIN_MENU, replies |-> <<AReply("no_data", <<>>)>>,
                   temp |-> r.exists]
             ELSE [next |-> ADMIN_MENU,
                   replies |-> IF fault = "send" THEN <<AReply("send_failed", <<>>)>>
                               ELSE <<AReply("document", <<>>)>>,
                   temp |-> (fault = "remove")]
    ELSE IF command = ManageCmd
    THEN [next |-> EDIT_QUESTIONS, replies |-> <<ManageReply>>, temp |-> temp_file]
    ELSE IF command = StatsCmd
    THEN LET df == LogRecords(sheet)
         IN  IF df = <<>>
             THEN [next |-> ADMIN_MENU,
                   replies |-> <<AReply("no_data_yet", <<>>)>>, temp |-> temp_file]
             ELSE [next |-> ADMIN_MENU,
                   replies |-> <<AReply("statistics",
                       << [q |-> "total", sum |-> Len(df), n |-> 1] >> \o
                       StatsLines(sheet, admin_load_questions(questions_sheet, load_ok)))>>,
                   temp |-> temp_file]
    ELSE [next |-> ADMIN_MENU, replies |-> <<PanelReply>>, temp |-> temp_file]

\* the body of AdminBot.admin_panel: the state it returns, what it replies and
\* whether the temp file exists afterwards
\*   store_ok  the row store can be read (sheet_to_excel_local / get_dataframe)
\*   fault     the local call of the export branch that fails, if any
\*   load_ok   the Questions worksheet can be read
admin_panel_body(user, command, read_ok, store_ok, fault, load_ok) ==
    IF ~is_user_admin(admin_users_file, user, read_ok)
    THEN [next |-> AUTHENTICATE, replies |-> <<AReply("not_admin", <<>>)>>,
          temp |-> temp_file]
    ELSE IF command = ExportCmd
    THEN LET r == sheet_to_excel_local(store_ok, fault)
         IN  \* not file_path or not os.path.exists(file_path)
             IF r.file_path = None
             THEN [next |-> ADMIN_MENU, replies |-> <<AReply("no_data", <<>>)>>,
                   temp |-> r.exists]
             ELSE [next |-> ADMIN_MENU,
                   replies |-> IF fault = "send" THEN <<AReply("send_failed", <<>>)>>
                               ELSE <<AReply("document", <<>>)>>,
                   \* finally: os.remove(file_path), whose failure is only logged
                   temp |-> (fault = "remove")]
    ELSE IF command = ManageCmd
    THEN [next |-> EDIT_QUESTIONS, replies |-> <<ManageReply>>, temp |-> temp_file]
    ELSE IF command = StatsCmd
    THEN LET df == IF store_ok THEN LogRecords(sheet) ELSE <<>>
         IN  IF df = <<>>
             THEN [next |-> ADMIN_MENU,
                   replies |-> <<AReply("no_data_yet", <<>>)>>, temp |-> temp_file]
             ELSE [next |-> ADMIN_MENU,
                   replies |-> <<AReply("statistics",
                       << [q |-> "total", sum |-> Len(df), n |-> 1] >> \o
                       StatsLines(sheet, admin_load_questions(questions_sheet, load_ok)))>>,
                   temp |-> temp_file]
    ELSE [next |-> ADMIN_MENU, replies |-> <<PanelReply>>, temp |-> temp_file]

\* the inputs of a call that admin_panel does not make are fixed
PanelInputs(command, store_ok, fault, load_ok) ==
    /\ (command /= ExportCmd) => fault = "none"
    /\ (command /= StatsCmd) => load_ok
    /\ (command = ManageCmd) => store_ok

\* AdminBot.admin_panel, the handler of state ADMIN_MENU
admin_panel(k, command, read_ok, store_ok, fault, load_ok) ==
    /\ admin_state[k] = ADMIN_MENU
    /\ PanelInputs(command, store_ok, fault, load_ok)
    /\ LET r == admin_panel_body(AdminUser(UserOf(k)), command, read_ok, store_ok,
                                 fault, load_ok)
       IN  /\ admin_state' = [admin_state EXCEPT ![k] = r.next]
           /\ temp_file' = r.temp
           /\ admin_last' = AOutcome(FALSE, r.replies)
    /\ UNCHANGED <<admin_user_data, admin_users_file, questions_sheet, inline>>
    /\ UNCHANGED surveyVars

\* AdminBot.admin_panel_fallback: a menu label that the conversation does not
\* handle (no conversation, or state EDIT_QUESTIONS); the state that admin_panel
\* returns is dropped
admin_panel_fallback(k, command, read_ok, read_ok2, store_ok, fault, load_ok) ==
    /\ admin_state[k] \in {END, EDIT_QUESTIONS}
    /\ PanelInputs(command, store_ok, fault, load_ok)
    /\ IF ~is_user_admin(admin_users_file, AdminUser(UserOf(k)), read_ok)
       THEN /\ read_ok2 /\ store_ok /\ fault = "none" /\ load_ok
            /\ admin_last' = AOutcome(FALSE, <<AReply("not_admin_login", <<>>)>>)
            /\ UNCHANGED temp_file
       ELSE LET r == admin_panel_body(AdminUser(UserOf(k)), command, read_ok2,
                                      store_ok, fault, load_ok)
            IN  /\ temp_file' = r.temp
                /\ admin_last' = AOutcome(FALSE, <<PanelReply>> \o r.replies)
    /\ UNCHANGED <<admin_state, admin_user_data, admin_users_file,
                   questions_sheet, inline>>
    /\ UNCHANGED surveyVars

\* AdminBot.edit_questions, the text handler of state EDIT_QUESTIONS
edit_questions(k, command, read_ok, load_ok) ==
    /\ admin_state[k] = EDIT_QUESTIONS
    /\ LET u == UserOf(k)
           questions == admin_load_questions(questions_sheet, load_ok)
       IN  IF ~is_user_admin(admin_users_file, AdminUser(u), read_ok)
           THEN /\ load_ok
                /\ admin_state' = [admin_state EXCEPT ![k] = AUTHENTICATE]
                /\ admin_last' = AOutcome(FALSE, <<AReply("not_admin", <<>>)>>)
                /\ UNCHANGED <<admin_user_data, inline>>
           ELSE IF command = "view"
           THEN /\ admin_last' = AOutcome(FALSE,
                      IF questions = <<>> THEN <<AReply("no_questions", <<>>)>>
                      ELSE <<AReply("all_questions", questions)>>)
                /\ UNCHANGED <<admin_state, admin_user_data, inline>>
           ELSE IF command = "add"
           THEN /\ admin_user_data' =
                      [admin_user_data EXCEPT ![u] = Put(@, "editing_mode", "add")]
                /\ admin_state' = [admin_state EXCEPT ![k] = NEW_QUESTION]
                /\ admin_last' = AOutcome(FALSE, <<AReply("ask_new_question", <<>>)>>)
                /\ UNCHANGED inline
           ELSE IF command \in {"edit", "delete"}
           THEN IF questions = <<>>
                THEN /\ admin_last' = AOutcome(FALSE, <<AReply("no_questions", <<>>)>>)
                     /\ UNCHANGED <<admin_state, admin_user_data, inline>>
                ELSE LET m == IF command = "edit" THEN EditList(Len(questions))
                              ELSE DeleteList(Len(questions))
                     IN  /\ Cardinality(inline[k] \cup {m}) <= MaxInline
                         /\ inline' = [inline EXCEPT ![k] = @ \cup {m}]
                         /\ admin_last' = AOutcome(FALSE,
                               <<AReply("choose_" \o command, questions)>>)
                         /\ UNCHANGED <<admin_state, admin_user_data>>
           ELSE \* back
                /\ admin_state' = [admin_state EXCEPT ![k] = ADMIN_MENU]
                /\ admin_last' = AOutcome(FALSE, <<PanelReply>>)
                /\ UNCHANGED <<admin_user_data, inline>>
    /\ UNCHANGED <<admin_users_file, questions_sheet, temp_file>>
    /\ UNCHANGED surveyVars

\* questions.pop(index)
RemoveAt(questions, index) ==
    SubSeq(questions, 1, index) \o SubSeq(questions, index + 2, Len(questions))

\* AdminBot.handle_callback_query, the callback handler of state EDIT_QUESTIONS:
\* button data of the live inline message m is pressed
handle_callback_query(k, m, data, load_ok, save_ok) ==
    /\ admin_state[k] = EDIT_QUESTIONS
    /\ m \in inline[k]
    /\ data \in Buttons(m)
    /\ LET u == UserOf(k)
           ud == admin_user_data[u]
           questions == admin_load_questions(questions_sheet, load_ok)
       IN  IF data.action = "edit"
           THEN LET index == ParseIndex(data)
                    ud1 == Put(Put(ud, "editing_index", index), "editing_mode", "edit")
                IN  /\ save_ok
                    /\ admin_user_data' = [admin_user_data EXCEPT ![u] = ud1]
                    /\ IF index < Len(questions)
                       THEN /\ inline' = [inline EXCEPT ![k] = @ \ {m}]
                            /\ admin_state' = [admin_state EXCEPT ![k] = NEW_QUESTION]
                            /\ admin_last' = AOutcome(FALSE,
                                  <<AReply("edit_prompt", <<questions[index + 1]>>)>>)
                       ELSE \* IndexError at questions[index]
                            /\ admin_last' = AOutcome(TRUE, <<>>)
                            /\ UNCHANGED <<inline, admin_state>>
                    /\ UNCHANGED questions_sheet
           ELSE IF data.action = "delete"
           THEN LET index == ParseIndex(data)
                IN  /\ save_ok
                    /\ admin_user_data' =
                          [admin_user_data EXCEPT ![u] = Put(ud, "deleting_index", index)]
                    /\ IF index < Len(questions)
                       THEN /\ inline' = [inline EXCEPT ![k] =
                                  (@ \ {m}) \cup {ConfirmPrompt(questions[index + 1])}]
                            /\ admin_last' = AOutcome(FALSE,
                                  <<AReply("confirm_prompt", <<questions[index + 1]>>)>>)
                       ELSE \* IndexError at questions[index]
                            /\ admin_last' = AOutcome(TRUE, <<>>)
                            /\ UNCHANGED inline
                    /\ UNCHANGED <<admin_state, questions_sheet>>
           ELSE IF data.action = "confirm_delete"
           THEN LET index == Get(ud, "deleting_index")
                    \* index is not None and 0 <= index < len(questions)
                    valid == IF ~Has(ud, "deleting_index") THEN FALSE
                             ELSE 0 <= index /\ index < Len(questions)
                    r == save_questions(questions_sheet,
                                        RemoveAt(questions, index), save_ok)
                IN  /\ (~valid) => save_ok
                    /\ questions_sheet' = IF valid THEN r.col ELSE questions_sheet
                    /\ inline' = [inline EXCEPT ![k] = @ \ {m}]
                    /\ admin_last' = AOutcome(FALSE,
                          << IF ~valid THEN AReply("invalid_index", <<>>)
                             ELSE IF r.ok THEN AReply("deleted", <<questions[index + 1]>>)
                             ELSE AReply("delete_failed", <<>>),
                             ManageReply >>)
                    /\ UNCHANGED <<admin_state, admin_user_data>>
           ELSE \* cancel_delete, cancel_edit
                /\ load_ok /\ save_ok
                /\ inline' = [inline EXCEPT ![k] = @ \ {m}]
                /\ admin_last' = AOutcome(FALSE, <<AReply("cancelled", <<>>), ManageReply>>)
                /\ UNCHANGED <<admin_state, admin_user_data, questions_sheet>>
    /\ UNCHANGED <<admin_users_file, temp_file>>
    /\ UNCHANGED surveyVars

\* a plausible slip: the edited question is moved to the end of the list
ReplaceAt_moving(questions, index, text) ==
    Append(SubSeq(questions, 1, index) \o SubSeq(questions, index + 2, Len(questions)),
           text)

\* questions[index] = new_question
ReplaceAt(questions, index, text) == [questions EXCEPT ![index + 1] = text]

\* AdminBot.handle_new_question, the text handler of state NEW_QUESTION
handle_new_question(k, new_question, load_ok, save_ok) ==
    /\ admin_state[k] = NEW_QUESTION
    /\ LET u == UserOf(k)
           ud == admin_user_data[u]
           questions == admin_load_questions(questions_sheet, load_ok)
           editing_mode == Get(ud, "editing_mode")
           index == Get(ud, "editing_index")
       IN  /\ IF editing_mode = "add"
              THEN LET r == save_questions(questions_sheet,
                                           Append(questions, new_question), save_ok)
                   IN  /\ Len(questions) < MaxQuestions
                       /\ questions_sheet' = r.col
                       /\ admin_last' = AOutcome(FALSE,
                             << IF r.ok THEN AReply("added", <<>>)
                                ELSE AReply("add_failed", <<>>), ManageReply >>)
              ELSE IF editing_mode = "edit"
              THEN IF (IF ~Has(ud, "editing_index") THEN FALSE
                       ELSE 0 <= index /\ index < Len(questions))
                   THEN LET r == save_questions(questions_sheet,
                                    ReplaceAt(questions, index, new_question), save_ok)
                        IN  /\ questions_sheet' = r.col
                            /\ admin_last' = AOutcome(FALSE,
                                  << IF r.ok
                                     THEN AReply("edited",
                                                 <<questions[index + 1], new_question>>)
                                     ELSE AReply("edit_failed", <<>>), ManageReply >>)
                   ELSE /\ save_ok
                        /\ admin_last' = AOutcome(FALSE,
                              <<AReply("invalid_index", <<>>), ManageReply>>)
                        /\ UNCHANGED questions_sheet
              ELSE /\ load_ok /\ save_ok
                   /\ admin_last' = AOutcome(FALSE, <<ManageReply>>)
                   /\ UNCHANGED questions_sheet
           /\ admin_user_data' = [admin_user_data EXCEPT ![u] =
                 Pop(Pop(Pop(ud, "editing_mode"), "editing_index"), "deleting_index")]
           /\ admin_state' = [admin_state EXCEPT ![k] = EDIT_QUESTIONS]
    /\ UNCHANGED <<admin_users_file, inline, temp_file>>
    /\ UNCHANGED surveyVars

AdminNext ==
    \/ \E k \in ManagerKeys : admin_start(k)
    \/ \E k \in AdminKeys, ok \in BOOLEAN : login(k, ok)
    \/ \E k \in AdminKeys, t \in PasswordTexts, rok \in BOOLEAN, wok \in BOOLEAN :
          authenticate(k, t, rok, wok)
    \/ \E k \in ManagerKeys, c \in MenuCommands, rok \in BOOLEAN, sok \in BOOLEAN,
          f \in SendFaults, lok \in BOOLEAN : admin_panel(k, c, rok, sok, f, lok)
    \/ \E k \in ManagerKeys, c \in MenuCommands, rok \in BOOLEAN, rok2 \in BOOLEAN,
          sok \in BOOLEAN, f \in SendFaults, lok \in BOOLEAN :
          admin_panel_fallback(k, c, rok, rok2, sok, f, lok)
    \/ \E k \in ManagerKeys, c \in EditCommands, rok \in BOOLEAN, lok \in BOOLEAN :
          edit_questions(k, c, rok, lok)
    \/ \E k \in ManagerKeys, lok \in BOOLEAN, sok \in BOOLEAN :
          \E m \in inline[k] : \E d \in Buttons(m) :
             handle_callback_query(k, m, d, lok, sok)
    \/ \E k \in ManagerKeys, t \in NewQuestionTexts, lok \in BOOLEAN, sok \in BOOLEAN :
          handle_new_question(k, t, lok, sok)
    \/ \E k \in AdminKeys : admin_cancel(k)

\* the admin bot over an allow-list that earlier sign-ins filled (empty, user
\* 1's username in another case, or user 2's id) and a submission log without
\* rows, with the header only, or with one row
MenuInit ==
    /\ state = [k \in ConvKeys |-> END]
    /\ user_data = [u \in Users |-> EmptyDict]
    /\ questions_file = SubSeq(QuestionTexts, 1, MaxQuestions)
    /\ sheet \in {<<>>, <<EarlierLog(1)[1]>>, EarlierLog(1)}
    /\ last = Outcome(FALSE, NoReply)
    /\ admin_state = [k \in AdminKeys |-> END]
    /\ admin_user_data = [u \in AdminUsers |-> EmptyDict]
    /\ admin_users_file \in
          { [admin_usernames |-> <<>>, admin_user_ids |-> <<>>],
            [admin_usernames |-> << <<"a", "B">> >>, admin_user_ids |-> <<>>],
            [admin_usernames |-> <<>>, admin_user_ids |-> <<2>>] }
    /\ questions_sheet = <<"Question">> \o SubSeq(QuestionTexts, 1, 1)
    /\ inline = [k \in AdminKeys |-> {}]
    /\ temp_file = FALSE
    /\ admin_last = AOutcome(FALSE, <<>>)

\* sign-in and the admin menu, for both admins
MenuNext ==
    \/ \E k \in AdminKeys : admin_start(k)
    \/ \E k \in AdminKeys, ok \in BOOLEAN : login(k, ok)
    \/ \E k \in AdminKeys, t \in PasswordTexts, rok \in BOOLEAN, wok \in BOOLEAN :
          authenticate(k, t, rok, wok)
    \/ \E k \in AdminKeys, c \in MenuCommands, rok \in BOOLEAN, sok \in BOOLEAN,
          f \in ExportFaults, lok \in BOOLEAN : admin_panel(k, c, rok, sok, f, lok)
    \/ \E k \in AdminKeys, c \in MenuCommands, rok \in BOOLEAN, rok2 \in BOOLEAN,
          sok \in BOOLEAN, f \in ExportFaults, lok \in BOOLEAN :
          admin_panel_fallback(k, c, rok, rok2, sok, f, lok)
    \/ \E k \in AdminKeys : admin_cancel(k)

\* two admins who both signed in and chose question management, over a Questions
\* worksheet with no question or one
EditorsInit ==
    /\ state = [k \in ConvKeys |-> END]
    /\ user_data = [u \in Users |-> EmptyDict]
    /\ questions_file = SubSeq(QuestionTexts, 1, MaxQuestions)
    /\ sheet = EarlierLog(1)
    /\ last = Outcome(FALSE, NoReply)
    /\ admin_state = [k \in AdminKeys |-> EDIT_QUESTIONS]
    /\ admin_user_data = [u \in AdminUsers |-> EmptyDict]
    /\ admin_users_file = [admin_usernames |-> << <<"A", "b">> >>,
                           admin_user_ids |-> <<1, 2>>]
    /\ questions_sheet \in
          { <<"Question">> \o SubSeq(QuestionTexts, 1, n) : n \in 0..1 }
    /\ inline = [k \in AdminKeys |-> {}]
    /\ temp_file = FALSE
    /\ admin_last = AOutcome(FALSE, <<ManageReply>>)

\* question management by both admins, every store call succeeding
EditorsNext ==
    \/ \E k \in AdminKeys, c \in EditCommands : edit_questions(k, c, TRUE, TRUE)
    \/ \E k \in AdminKeys : \E m \in inline[k] : \E d \in Buttons(m) :
             handle_callback_query(k, m, d, TRUE, TRUE)
    \/ \E k \in AdminKeys, t \in NewQuestionTexts :
          handle_new_question(k, t, TRUE, TRUE)

\* both bots: the question file of the survey and the Questions worksheet of
\* the admin bot hold the same one question, nobody has submitted, and the
\* signed-in admin has chosen question management
CrossInit ==
    /\ state = [k \in ConvKeys |-> END]
    /\ user_data = [u \in Users |-> EmptyDict]
    /\ questions_file = SubSeq(QuestionTexts, 1, 1)
    /\ sheet = <<>>
    /\ last = Outcome(FALSE, NoReply)
    /\ admin_state = [k \in AdminKeys |-> IF k \in ManagerKeys THEN EDIT_QUESTIONS
                                          ELSE END]
    /\ admin_user_data = [u \in AdminUsers |-> EmptyDict]
    /\ admin_users_file = [admin_usernames |-> << <<"A", "b">> >>,
                           admin_user_ids |-> <<1>>]
    /\ questions_sheet = <<"Question">> \o SubSeq(QuestionTexts, 1, 1)
    /\ inline = [k \in AdminKeys |-> {}]
    /\ temp_file = FALSE
    /\ admin_last = AOutcome(FALSE, <<ManageReply>>)

\* question management by the admin and the survey in the private chat, every
\* file and store call succeeding
CrossNext ==
    \/ \E k \in ManagerKeys, c \in EditCommands : edit_questions(k, c, TRUE, TRUE)
    \/ \E k \in ManagerKeys : \E m \in inline[k] : \E d \in Buttons(m) :
             handle_callback_query(k, m, d, TRUE, TRUE)
    \/ \E k \in ManagerKeys, t \in NewQuestionTexts :
          handle_new_question(k, t, TRUE, TRUE)
    \/ start(<<1, 1>>, TRUE)
    \/ \E t \in NameTexts : get_name(<<1, 1>>, t)
    \/ \E t \in PhoneTexts : get_phone(<<1, 1>>, t, TRUE)
    \/ \E t \in RatingTexts : handle_rating(<<1, 1>>, t, TRUE, "none", TRUE)
    \/ cancel(<<1, 1>>)

\* the survey handlers of the user's private chat
PrivateNext ==
    LET k == <<1, 1>>
    IN  \/ \E ok \in BOOLEAN : start(k, ok)
        \/ \E t \in NameTexts : get_name(k, t)
        \/ \E t \in PhoneTexts, ok \in BOOLEAN : get_phone(k, t, ok)
        \/ \E t \in RatingTexts, ok \in BOOLEAN, f \in AppendFaults, hok \in BOOLEAN :
              handle_rating(k, t, ok, f, hok)
        \/ cancel(k)

SurveyNext ==
    \/ \E k \in ConvKeys, ok \in BOOLEAN : start(k, ok)
    \/ \E k \in ConvKeys, t \in NameTexts : get_name(k, t)
    \/ \E k \in ConvKeys, t \in PhoneTexts, ok \in BOOLEAN : get_phone(k, t, ok)
    \/ \E k \in ConvKeys, t \in RatingTexts, ok \in BOOLEAN, f \in AppendFaults,
          hok \in BOOLEAN : handle_rating(k, t, ok, f, hok)
    \/ \E k \in ConvKeys : cancel(k)

\* ==================================================================== claims
UserRows(sh, u) == {i \in 2..Len(sh) : sh[i][1] = ToString(u)}
LastRow(sh) == sh[Len(sh)]
RowRatings(row) == SubSeq(row, 5, Len(row))
ValidTexts == {t \in RatingTexts : IsRatingEmoji(strip(t))}
InvalidTexts == RatingTexts \ ValidTexts
\* what a session on key k has collected so far
Ratings(k) == user_data[UserOf(k)]["ratings"]
InRating(k) ==
    /\ state[k] = RATINGS
    /\ Has(user_data[UserOf(k)], "ratings")
    /\ Has(user_data[UserOf(k)], "current_question")

\* C1: for a session whose question list has N >= 1 questions, the N-th valid
\* rating appends exactly one row, which carries the N ratings in question
\* order, and ends the session; every row appended carries N ratings; and an
\* entry command of a user who has a row in the log is refused.
C1_OneRowOfNRatings ==
    [][ /\ \A k \in ConvKeys, t \in ValidTexts, ok, hok \in BOOLEAN, f \in AppendFaults :
            ( /\ InRating(k)
              /\ Len(Ratings(k)) + 1 = Len(questions_file)
              /\ handle_rating(k, t, ok, f, hok) )
            => /\ DataRows(sheet') = DataRows(sheet) + 1
               /\ LastRow(sheet')[1] = ToString(UserOf(k))
               /\ RowRatings(LastRow(sheet')) = Append(Ratings(k), RatingOf(strip(t)))
               /\ state'[k] = END
        /\ DataRows(sheet') > DataRows(sheet)
            => Len(RowRatings(LastRow(sheet'))) = Len(questions_file)
        /\ \A k \in ConvKeys, ok \in BOOLEAN :
            (UserRows(sheet, UserOf(k)) /= {} /\ start(k, ok))
            => (state'[k] = END /\ last'.reply.kind = "already_submitted")
      ]_vars

\* C2 (as claimed): an input outside the rating alphabet in the rating state
\* leaves the session unchanged and the current question is rendered again.
C2_InvalidRatingRerendersQuestion ==
    [][ \A k \in ConvKeys, t \in InvalidTexts, ok \in BOOLEAN :
            (InRating(k) /\ handle_rating(k, t, ok, "none", TRUE))
            => /\ UNCHANGED <<state, user_data, sheet>>
               /\ last'.reply.kind = "question"
      ]_vars

\* C2 (amended): an input outside the rating alphabet in the rating state
\* leaves the session unchanged (state, question index, ratings, log); the
\* question is not rendered again: the reply is the message that asks for the
\* rating symbols, or the handler raises without a reply when the user's context
\* holds no question index any more.
C2_InvalidRatingRejected ==
    [][ \A k \in ConvKeys, t \in InvalidTexts, ok \in BOOLEAN :
            (state[k] = RATINGS /\ handle_rating(k, t, ok, "none", TRUE))
            => /\ UNCHANGED <<state, user_data, sheet, questions_file>>
               /\ IF Has(user_data[UserOf(k)], "current_question")
                  THEN last' = Outcome(FALSE, Reply("invalid_rating"))
                  ELSE last' = Outcome(TRUE, NoReply)
      ]_vars

\* C2 witness: an input was rejected in the middle of the questions
C2_Witness ==
    /\ last.reply.kind = "invalid_rating"
    /\ \E k \in ConvKeys : InRating(k) /\ Len(Ratings(k)) = 1
                           /\ user_data[UserOf(k)]["current_question"] = 1

\* C3: the submission log holds at most one row per UserID.
C3_OneRowPerUser ==
    \A u \in Users \cup EarlierUsers : Cardinality(UserRows(sheet, u)) <= 1

\* C4: when the log holds a row for the user's identifier, the entry command
\* replies and ends at once, also when the row store cannot be reached: no
\* state is entered and nothing is collected.
C4_SubmittedUserRefused ==
    [][ \A k \in ConvKeys, ok \in BOOLEAN :
            (UserRows(sheet, UserOf(k)) /= {} /\ start(k, ok))
            => /\ state'[k] = END
               /\ user_data' = user_data
               /\ last' = Outcome(FALSE, Reply("already_submitted"))
      ]_vars

\* C9: no handler invocation of either engine ends with an unhandled error.
C9_NoUnhandledError == ~last.raised /\ ~admin_last.raised

\* C10: the session uses the question list as it was at the phone step: a valid
\* rating that is not the last one of that list keeps the session in the rating
\* state, appends nothing and is answered with the next question of that list.
C10_QuestionsReadOnce ==
    [][ \A k \in ConvKeys, t \in ValidTexts, ok \in BOOLEAN :
            ( /\ InRating(k)
              /\ Len(Ratings(k)) + 1 < Len(questions_file)
              /\ user_data[UserOf(k)]["current_question"] = Len(Ratings(k))
              /\ \E f \in AppendFaults, hok \in BOOLEAN : handle_rating(k, t, ok, f, hok) )
            => /\ state'[k] = RATINGS
               /\ sheet' = sheet
               /\ last'.reply = QuestionReply(Len(Ratings(k)) + 2,
                                              questions_file[Len(Ratings(k)) + 2])
      ]_vars

\* C11: when the question list is empty at the phone step (the file holds no
\* question, or cannot be read), the user gets the failure message, the
\* conversation ends without entering RATINGS and no row is appended.
C11_EmptyListEndsSession ==
    [][ \A k \in ConvKeys, t \in PhoneTexts, ok \in BOOLEAN :
            (load_questions(ok) = <<>> /\ get_phone(k, t, ok))
            => /\ state'[k] = END
               /\ last' = Outcome(FALSE, Reply("no_questions"))
               /\ sheet' = sheet
      ]_vars

\* C11 witness: a session was ended at the phone step for want of questions
C11_Witness ==
    /\ last = Outcome(FALSE, Reply("no_questions"))
    /\ \E k \in ConvKeys : state[k] = END /\ Has(user_data[UserOf(k)], "phone")

\* the user of key k is not in the persisted allow-list
NotListed(k) == ~is_user_admin(admin_users_file, AdminUser(UserOf(k)), TRUE)
\* a handler did nothing but send the session of key k to AUTHENTICATE
ForcedToAuthenticate(k) ==
    /\ admin_state'[k] = AUTHENTICATE
    /\ UNCHANGED <<admin_user_data, admin_users_file, questions_sheet, inline,
                   temp_file>>

\* C5: a handler of the admin bot (menu, question management, inline callback,
\* new-question text) that is invoked by a user who is not in the allow-list
\* performs no operation and moves the session to AUTHENTICATE.
C5_NonAdminForcedToAuthenticate ==
    [][ \A k \in ManagerKeys : NotListed(k) =>
          /\ \A c \in MenuCommands, rok, sok, lok \in BOOLEAN, f \in SendFaults :
                admin_panel(k, c, rok, sok, f, lok) => ForcedToAuthenticate(k)
          /\ \A c \in EditCommands, rok, lok \in BOOLEAN :
                edit_questions(k, c, rok, lok) => ForcedToAuthenticate(k)
          /\ \A m \in inline[k] : \A d \in Buttons(m) : \A lok, sok \in BOOLEAN :
                handle_callback_query(k, m, d, lok, sok) => ForcedToAuthenticate(k)
          /\ \A t \in NewQuestionTexts, lok, sok \in BOOLEAN :
                handle_new_question(k, t, lok, sok) => ForcedToAuthenticate(k)
      ]_vars

\* every identifier and username of allow-list a is in allow-list b
Keeps(a, b) ==
    /\ \A i \in 1..Len(a.admin_user_ids) : InSeq(a.admin_user_ids[i], b.admin_user_ids)
    /\ \A i \in 1..Len(a.admin_usernames) : InSeq(a.admin_usernames[i], b.admin_usernames)

\* C6: the persisted allow-list never loses a member: an attempt with the
\* correct password keeps every identifier and username that was in the list,
\* also when the list cannot be read during the attempt, and an attempt with a
\* wrong password leaves the list as it was.
C6_AllowListNeverShrinks ==
    [][ /\ Keeps(admin_users_file, admin_users_file')
        /\ \A k \in AdminKeys, t \in PasswordTexts \ {PASSWORD}, rok, wok \in BOOLEAN :
              authenticate(k, t, rok, wok) => admin_users_file' = admin_users_file
      ]_vars

\* C7: a confirmed delete at an in-range index i of a list of length n leaves a
\* stored list that reads back with length n-1, the entries before i unchanged
\* and the entries after i moved down by one; with an out-of-range or missing
\* index the stored list is unchanged and the reply reports the failure.
C7_DeleteShiftsDown ==
    [][ \A k \in ManagerKeys : \A m \in inline[k] :
          handle_callback_query(k, m, Fixed("confirm_delete"), TRUE, TRUE) =>
             LET ud == admin_user_data[UserOf(k)]
                 before == admin_load_questions(questions_sheet, TRUE)
                 after == admin_load_questions(questions_sheet', TRUE)
                 i == Get(ud, "deleting_index")
                 in_range == IF Has(ud, "deleting_index")
                             THEN 0 <= i /\ i < Len(before) ELSE FALSE
             IN  IF in_range
                 THEN /\ Len(after) = Len(before) - 1
                      /\ \A j \in 1..i : after[j] = before[j]
                      /\ \A j \in (i + 1)..(Len(before) - 1) : after[j] = before[j + 1]
                 ELSE /\ questions_sheet' = questions_sheet
                      /\ admin_last'.replies[1].kind = "invalid_index"
      ]_vars

\* C8: an edit or delete selection whose index is outside the question list as
\* the handler reads it is answered with a failure message, leaves the list
\* unchanged and keeps the session in question management; the handler does not
\* raise.
C8_StaleSelectionRejected ==
    [][ \A k \in ManagerKeys : \A m \in inline[k] : \A d \in Buttons(m) :
        \A lok \in BOOLEAN :
          ( /\ d.action \in {"edit", "delete"}
            /\ handle_callback_query(k, m, d, lok, TRUE)
            /\ ParseIndex(d) >= Len(admin_load_questions(questions_sheet, lok)) )
          => /\ ~admin_last'.raised
             /\ admin_last'.replies /= <<>>
             /\ questions_sheet' = questions_sheet
             /\ admin_state'[k] = EDIT_QUESTIONS
      ]_vars

\* C12: an edit of the question at an in-range index i with text t leaves a
\* stored list that reads back with the same length, t at position i and every
\* other position unchanged (so a second edit of the same index leaves the
\* second text there); the reply shows the old and the new text.
C12_EditReplacesOne ==
    [][ \A k \in ManagerKeys, t \in NewQuestionTexts :
          LET ud == admin_user_data[UserOf(k)]
              before == admin_load_questions(questions_sheet, TRUE)
              after == admin_load_questions(questions_sheet', TRUE)
              i == Get(ud, "editing_index")
              in_range == IF Has(ud, "editing_index")
                          THEN 0 <= i /\ i < Len(before) ELSE FALSE
          IN  ( /\ Get(ud, "editing_mode") = "edit"
                /\ in_range
                /\ handle_new_question(k, t, TRUE, TRUE) )
              => /\ Len(after) = Len(before)
                 /\ after[i + 1] = t
                 /\ \A j \in 1..Len(before) : j /= i + 1 => after[j] = before[j]
                 /\ admin_last'.replies[1] = AReply("edited", <<before[i + 1], t>>)
                 /\ admin_state'[k] = EDIT_QUESTIONS
      ]_vars

\* C12 witness: the first of two questions, edited before, was edited again
C12_Witness ==
    /\ Len(questions_sheet) = 3
    /\ questions_sheet[2] = "qc"
    /\ IF admin_last.replies = <<>> THEN FALSE
       ELSE admin_last.replies[1] = AReply("edited", <<"qb", "qc">>)

\* the user of key k is in the persisted allow-list
Listed(k) == is_user_admin(admin_users_file, AdminUser(UserOf(k)), TRUE)

\* C13: when an allow-listed admin asks for the export while the submission
\* log has no submission, the reply is the no-data message alone (no document),
\* the temp file does not exist afterwards and the session stays in ADMIN_MENU.
C13_EmptyExportNoData ==
    [][ \A k \in AdminKeys, sok \in BOOLEAN, f \in ExportFaults :
          ( /\ LogRecords(sheet) = <<>>
            /\ Listed(k)
            /\ admin_panel(k, ExportCmd, TRUE, sok, f, TRUE) )
          => /\ admin_last' = AOutcome(FALSE, <<AReply("no_data", <<>>)>>)
             /\ ~temp_file'
             /\ admin_state'[k] = ADMIN_MENU
      ]_vars

\* C13 witness: an export over a log without submissions was answered
C13_Witness ==
    /\ LogRecords(sheet) = <<>>
    /\ admin_last = AOutcome(FALSE, <<AReply("no_data", <<>>)>>)
    /\ \E k \in AdminKeys : admin_state[k] = ADMIN_MENU /\ Listed(k)

\* C14: after every export handler invocation (document sent, sending failed,
\* or no data) the temp export file does not exist.
C14_NoTempFileAfterExport ==
    [][ \A k \in AdminKeys, rok, sok \in BOOLEAN, f \in ExportFaults :
          admin_panel(k, ExportCmd, rok, sok, f, TRUE) => ~temp_file'
      ]_vars

\* the questions stored in column A of the Questions worksheet
StoredQuestions(col) ==
    IF col = <<>> THEN <<>>
    ELSE IF col[1] = "Question" THEN Tail(col) ELSE col
\* what the view shows for a list
ViewOf(questions) ==
    IF questions = <<>> THEN <<AReply("no_questions", <<>>)>>
    ELSE <<AReply("all_questions", questions)>>
ViewFrame == UNCHANGED <<questions_sheet, admin_state, admin_user_data, inline,
                         admin_users_file>>

\* C15 (as claimed): what the view shows is decided by the stored list alone, so
\* two views with no mutation between them show the same ordered content; the
\* view changes neither the stored list nor the session.
C15_ViewDecidedByStoredList ==
    [][ \A k \in ManagerKeys, lok \in BOOLEAN :
          (Listed(k) /\ edit_questions(k, "view", TRUE, lok))
          => /\ admin_last'.replies = ViewOf(StoredQuestions(questions_sheet))
             /\ ViewFrame
      ]_vars

\* C15 (amended): a view whose read of the Questions worksheet succeeds shows
\* the stored list in order (the no-questions message for an empty list), so two
\* such views with no mutation between them show the same content; a view
\* whose read fails shows the no-questions message; in both cases the view
\* changes neither the stored list nor the session.
C15_ViewShowsWhatItReads ==
    [][ \A k \in ManagerKeys, lok \in BOOLEAN :
          (Listed(k) /\ edit_questions(k, "view", TRUE, lok))
          => /\ admin_last'.replies =
                   IF lok THEN ViewOf(StoredQuestions(questions_sheet))
                   ELSE ViewOf(<<>>)
             /\ ViewFrame
      ]_vars

\* C15 witness: the view showed a list of two questions
C15_Witness ==
    /\ \E k \in ManagerKeys : admin_state[k] = EDIT_QUESTIONS
    /\ Len(questions_sheet) = 3
    /\ admin_last.replies = ViewOf(StoredQuestions(questions_sheet))

\* C16: whenever an attempt with the matching password moves the session to
\* ADMIN_MENU, the user is in the persisted allow-list afterwards.
C16_MenuOnlyWhenListed ==
    [][ \A k \in AdminKeys, rok, wok \in BOOLEAN :
          (authenticate(k, PASSWORD, rok, wok) /\ admin_state'[k] = ADMIN_MENU)
          => is_user_admin(admin_users_file', AdminUser(UserOf(k)), TRUE)
      ]_vars

\* the submission rows of the log, in order: every row but a header row
IsHeaderRow(row) == row[1] = "UserID"
SubmissionRows(sh) == SelectSeq(sh, LAMBDA row : ~IsHeaderRow(row))
IsPrefix(a, b) == Len(a) <= Len(b) /\ SubSeq(b, 1, Len(a)) = a

\* C17: the submission log is append-only: in every step the submission rows
\* of the log are kept, with the same content and in the same order, and new
\* rows come after them.
C17_LogAppendOnly ==
    [][ IsPrefix(SubmissionRows(sheet), SubmissionRows(sheet')) ]_vars

\* C17 witness: a submission was appended to a log that held a row already
C17_Witness ==
    /\ Len(SubmissionRows(sheet)) = 2
    /\ SubmissionRows(sheet)[1][1] = "2"
    /\ SubmissionRows(sheet)[2][1] = "1"
    /\ last = Outcome(FALSE, Reply("thanks"))

C19_WrongPasswordNoLockout ==
    [][ /\ \A k \in AdminKeys, t \in PasswordTexts \ {PASSWORD} :
              authenticate(k, t, TRUE, TRUE)
              => /\ admin_state'[k] = AUTHENTICATE
                 /\ admin_last' = AOutcome(FALSE, <<AReply("wrong_password", <<>>)>>)
                 /\ UNCHANGED <<admin_state, admin_user_data, admin_users_file,
                                questions_sheet, inline, temp_file>>
                 /\ ENABLED authenticate(k, PASSWORD, TRUE, TRUE)
        /\ \A k \in AdminKeys, rok, wok \in BOOLEAN :
              authenticate(k, PASSWORD, rok, wok) => admin_state'[k] = ADMIN_MENU
      ]_vars

\* C19 witness: a non-matching attempt was refused and the session waits for
\* the next attempt
C19_Witness ==
    /\ admin_last = AOutcome(FALSE, <<AReply("wrong_password", <<>>)>>)
    /\ \E k \in AdminKeys : admin_state[k] = AUTHENTICATE

\* the user's numeric id, or the username without regard to case, is in the
\* persisted allow-list
InAllowList(user) ==
    \/ \E i \in 1..Len(admin_users_file.admin_user_ids) :
          admin_users_file.admin_user_ids[i] = user.id
    \/ /\ user.username /= NoUsername
       /\ \E i \in 1..Len(admin_users_file.admin_usernames) :
             lower(admin_users_file.admin_usernames[i]) = lower(user.username)
LoginFrame == UNCHANGED <<admin_user_data, admin_users_file, questions_sheet,
                          inline, temp_file>>

\* C20 (as claimed): the entry command moves the session to ADMIN_MENU and
\* shows the panel exactly when the user's id or case-insensitive username is
\* in the persisted allow-list, and to AUTHENTICATE otherwise.
C20_LoginByPersistedList ==
    [][ \A k \in AdminKeys, ok \in BOOLEAN :
          login(k, ok) =>
             admin_state'[k] = IF InAllowList(AdminUser(UserOf(k)))
                               THEN ADMIN_MENU ELSE AUTHENTICATE
      ]_vars

\* C20 (amended): the entry command moves the session to ADMIN_MENU and shows
\* the panel, without asking for the password, exactly when the allow-list can
\* be read and holds the user's id or case-insensitive username; otherwise
\* (also when the list cannot be read) it asks for the password and moves the
\* session to AUTHENTICATE.  It changes nothing else.
C20_LoginByReadableList ==
    [][ \A k \in AdminKeys, ok \in BOOLEAN :
          login(k, ok) =>
             /\ IF ok /\ InAllowList(AdminUser(UserOf(k)))
                THEN /\ admin_state'[k] = ADMIN_MENU
                     /\ admin_last' = AOutcome(FALSE, <<PanelReply>>)
                ELSE /\ admin_state'[k] = AUTHENTICATE
                     /\ admin_last' = AOutcome(FALSE, <<AReply("ask_password", <<>>)>>)
             /\ LoginFrame
      ]_vars

\* C20 witness: user 1 entered the menu by the username, which the list holds
\* in another case, without a password
C20_Witness ==
    /\ admin_users_file = [admin_usernames |-> << <<"a", "B">> >>,
                           admin_user_ids |-> <<>>]
    /\ admin_state[<<1, 1>>] = ADMIN_MENU
    /\ admin_last = AOutcome(FALSE, <<PanelReply>>)

\* C21: /cancel is handled in every state of the admin conversation; it ends
\* the conversation, leaves the user's context empty and changes neither the
\* question list nor the allow-list.
C21_AdminCancelClears ==
    [][ \A k \in AdminKeys :
          /\ admin_state[k] \in {AUTHENTICATE, ADMIN_MENU, EDIT_QUESTIONS, NEW_QUESTION}
                => ENABLED admin_cancel(k)
          /\ admin_cancel(k)
                => /\ admin_state'[k] = END
                   /\ admin_user_data'[UserOf(k)] = EmptyDict
                   /\ UNCHANGED <<questions_sheet, admin_users_file>>
      ]_vars

\* C21 witness: the conversation was cancelled while it awaited a question text
\* or managed the questions, with a selection list still on screen
C21_Witness ==
    /\ admin_last = AOutcome(FALSE, <<AReply("cancelled", <<>>)>>)
    /\ \E k \in ManagerKeys : admin_state[k] = END /\ inline[k] /= {}

\* C22: whenever a survey conversation ends (submission, /cancel, or the abort
\* for want of questions), the user's context is empty afterwards.
C22_ContextEmptyAtEnd ==
    [][ \A k \in ConvKeys :
          (state[k] /= END /\ state'[k] = END)
          => user_data'[UserOf(k)] = EmptyDict
      ]_vars

\* C23: in the add mode the next text t leaves a stored list that reads back as
\* the previous list with t appended (every question keeps its position, also
\* when the read of the list fails during the add), and the session returns to
\* EDIT_QUESTIONS.
C23_AddAppends ==
    [][ \A k \in ManagerKeys, t \in NewQuestionTexts, lok \in BOOLEAN :
          ( /\ Get(admin_user_data[UserOf(k)], "editing_mode") = "add"
            /\ handle_new_question(k, t, lok, TRUE) )
          => /\ StoredQuestions(questions_sheet')
                   = Append(StoredQuestions(questions_sheet), t)
             /\ admin_state'[k] = EDIT_QUESTIONS
      ]_vars

\* admin k is in the modal state of an add
MidAdd(k) ==
    /\ admin_state[k] = NEW_QUESTION
    /\ Get(admin_user_data[UserOf(k)], "editing_mode") = "add"
\* the handler that ran last stored an add
AddJustStored == admin_last = AOutcome(FALSE, <<AReply("added", <<>>), ManageReply>>)

C28_ConfirmDeletesShown ==
    [][ \A k \in AdminKeys : \A m \in inline[k] :
          ( /\ m.kind = "confirm"
            /\ handle_callback_query(k, m, Fixed("confirm_delete"), TRUE, TRUE)
            /\ admin_last'.replies[1].kind = "deleted" )
          => LET before == StoredQuestions(questions_sheet)
                 after == StoredQuestions(questions_sheet')
             IN  /\ admin_last'.replies[1].arg = <<m.shown>>
                 /\ \E i \in 1..Len(before) :
                       /\ before[i] = m.shown
                       /\ SubSeq(after, 1, Len(before) - 1) = RemoveAt(before, i - 1)
      ]_vars

\* C25: for an allow-listed admin, the export and the statistics reply the same
\* no-data message, keep the session in ADMIN_MENU and leave the temp file as it
\* was, both when the row store cannot be reached and when it is reached and
\* holds no submission (at most the header row).
C25_UnreachableLikeEmpty ==
    [][ \A k \in AdminKeys, c \in {ExportCmd, StatsCmd}, sok \in BOOLEAN,
           f \in ExportFaults, lok \in BOOLEAN :
          ( /\ Listed(k)
            /\ IF sok THEN Len(sheet) <= 1 ELSE TRUE
            /\ admin_panel(k, c, TRUE, sok, f, lok) )
          => /\ admin_last' = AOutcome(FALSE,
                   <<AReply(IF c = ExportCmd THEN "no_data" ELSE "no_data_yet", <<>>)>>)
             /\ admin_state'[k] = ADMIN_MENU
             /\ temp_file' = temp_file
      ]_vars
\* the statistics answered "no data yet" over a log that holds a submission: the
\* row store was unreachable
C25_Witness ==
    /\ admin_last = AOutcome(FALSE, <<AReply("no_data_yet", <<>>)>>)
    /\ Len(sheet) = 2
    /\ \E k \in AdminKeys : admin_state[k] = ADMIN_MENU /\ Listed(k)

\* the place of a symbol in the rating alphabet, worst to best
Ordinal(symbol) ==
    CASE symbol = "angry" -> 1
      [] symbol = "sad" -> 2
      [] symbol = "neutral" -> 3
      [] symbol = "smile" -> 4
      [] symbol = "grin" -> 5
AllInRange(ratings) == \A i \in 1..Len(ratings) : ratings[i] \in 1..5

\* every rating held by a session and every rating cell of a submission row is
\* an integer in 1..5
RatingsInRange ==
    /\ \A u \in Users :
          Has(user_data[u], "ratings") => AllInRange(user_data[u]["ratings"])
    /\ \A i \in 2..Len(sheet) :
          sheet[i][1] /= "UserID" => AllInRange(RowRatings(sheet[i]))

\* C26: an accepted rating text that is the k-th symbol of the alphabet appends
\* exactly the value k to the ratings of the session (as long as the session's
\* context is kept), and before and after every step every rating held by a
\* session and every rating cell of a submission row is an integer in 1..5.
C26_RatingIsOrdinal ==
    [][ /\ RatingsInRange
        /\ RatingsInRange'
        /\ \A k \in ConvKeys, t \in ValidTexts, ok, hok \in BOOLEAN, f \in AppendFaults :
            ( /\ InRating(k)
              /\ Has(user_data'[UserOf(k)], "ratings")
              /\ handle_rating(k, t, ok, f, hok) )
            => user_data'[UserOf(k)]["ratings"]
                  = Append(Ratings(k), Ordinal(strip(t)[1]))
      ]_vars
\* a row of user 1 carries the values of the worst and of the best symbol
C26_Witness ==
    \E i \in UserRows(sheet, 1) : RowRatings(sheet[i]) = <<1, 5>>

\* C27: whenever a survey session is in the rating state, its context holds the
\* ratings and the question index, the number of ratings equals the index, and
\* the index is smaller than the number of questions of the list.
C27_IndexTracksRatings ==
    \A k \in ConvKeys :
       state[k] = RATINGS
       => /\ InRating(k)
          /\ Len(Ratings(k)) = user_data[UserOf(k)]["current_question"]
          /\ user_data[UserOf(k)]["current_question"] < Len(questions_file)

\* C29: a step that changes the stored question list is made by a handler of a
\* question-managing admin whose identifier is in the allow-list at that time.
C29_WritesOnlyByListed ==
    [][ questions_sheet' /= questions_sheet
        => \E k \in ManagerKeys :
              /\ InAllowList(AdminUser(UserOf(k)))
              /\ admin_state[k] \in {EDIT_QUESTIONS, NEW_QUESTION}
      ]_vars

\* the admin's last mutation of the question list succeeded
MutationStored ==
    /\ admin_last.replies /= <<>>
    /\ admin_last.replies[1].kind \in {"added", "edited", "deleted"}

\* C30: a survey session that reaches the phone step after an admin add, edit or
\* delete succeeded is asked question 1 of the admin's stored list, or is told
\* that there are no questions when that list is empty.
C30_SurveyAsksAdminList ==
    [][ \A k \in ConvKeys, t \in PhoneTexts :
          ( /\ MutationStored
            /\ get_phone(k, t, TRUE) )
          => LET questions == StoredQuestions(questions_sheet)
             IN  last' = Outcome(FALSE,
                           IF questions = <<>> THEN Reply("no_questions")
                           ELSE QuestionReply(1, questions[1]))
      ]_vars

\* the survey bot alone
SurveySpec == SurveyInit /\ [][SurveyNext]_vars

\* both bots side by side
CrossSpec == CrossInit /\ [][CrossNext]_vars

\* the survey bot used from the private chat only
PrivateSpec == SurveyInit /\ [][PrivateNext]_vars

\* the admin bot alone
AdminSpec == AdminInit /\ [][AdminNext]_vars

\* sign-in and menu of the admin bot
MenuSpec == MenuInit /\ [][MenuNext]_vars

\* question management by two admins
EditorsSpec == EditorsInit /\ [][EditorsNext]_vars
====
